---- MODULE Spec2Model ----
(***************************************************************************)
(* Personal Ephemeris (src/ephemeris.py): one synchronous report run.      *)
(*                                                                         *)
(* The run is a straight-line script.  Its inputs are the configuration    *)
(* document, the command line, and the answers of the astronomy library    *)
(* (city table, positions, rise/set queries, lunar phases, satellite       *)
(* passes) for the report instant.  The inputs are chosen in Init; every   *)
(* action is one step of the script.  The report stream is the sequence    *)
(* `out` of printed lines.                                                 *)
(*                                                                         *)
(* Angles are whole degrees.  The modelled sky lies on one meridian (all   *)
(* bodies share one azimuth), where the library's spherical separation of  *)
(* two (az, alt) pairs is exactly the difference of the altitudes.         *)
(***************************************************************************)
EXTENDS Integers, Sequences, FiniteSets, TLC

VARIABLES
    config_data,    \* the parsed objects.json: a function on the keys present
    argv_city,      \* -c/--city from the command line, NoArg when not given
    builtin,        \* the library's built-in city table: name -> latitude
    instant,        \* the report instant (UT): --date, or the clock
    sky,            \* the library's answers per celestial body at `instant`
    pc,             \* position of the script
    mycity_data,    \* _mycity_data
    default_city,   \* _default_city
    args_city,      \* args.city
    site,           \* the observer
    now,            \* now
    obj,            \* the body objects created so far, by variable name
    idx,            \* position of the loop in progress (planets, comets, satellites)
    fault,          \* the unhandled exception that ended the run, NoFault otherwise
    exit_code,      \* process exit status: Running, "0" or "1"
    readdb_calls,   \* the descriptors given to ephem.readdb by the comet loop
    out             \* the report stream

inputs == <<config_data, argv_city, builtin, instant, sky>>
vars == <<config_data, argv_city, builtin, instant, sky, pc, mycity_data,
          default_city, args_city, site, now, obj, idx, fault, exit_code,
          readdb_calls, out>>

----------------------------------------------------------------------------
(* Bounds of the explored inputs *)

\* celestial bodies whose sky differs from the default sky
MaxOdd == 1
\* entries of the configured comet list
MaxComets == 2
\* entries of the configured satellite list
MaxSatellites == 2
\* length of the modelled synodic month, in units of the clock
MoonPeriod == 8

----------------------------------------------------------------------------
(* Small helpers *)

NoArg == ""
NoFault == "none"
Running == "running"
\* the time of a body never evaluated, and of a label that is no time
NoTime == -1
\* the answer of a rise/set query that raises ephem.CircumpolarError
Circumpolar == -2

Abs(x) == IF x < 0 THEN -x ELSE x

Last(s) == s[Len(s)]

RECURSIVE SeqsUpTo(_, _)
SeqsUpTo(S, n) ==
    IF n = 0 THEN {<<>>}
    ELSE LET shorter == SeqsUpTo(S, n - 1)
         IN  shorter \cup {Append(s, x) : s \in {t \in shorter : Len(t) = n - 1}, x \in S}

RECURSIVE SelectLines(_, _)
SelectLines(s, kinds) ==
    IF s = <<>> THEN <<>>
    ELSE IF s[1].kind \in kinds
         THEN <<s[1]>> \o SelectLines(Tail(s), kinds)
         ELSE SelectLines(Tail(s), kinds)

----------------------------------------------------------------------------
(* The library's view of the world at the report instant *)

\* the fixed list of line 270, by the names the library gives its bodies
BodyNames == <<"Sun", "Moon", "Mercury", "Venus", "Mars", "Jupiter",
               "Saturn", "Uranus", "Neptune", "Pluto", "M45">>

\* the bodies a comet descriptor of the configuration can describe
CometNames == {"C/Up", "C/Down", "C/Never"}

InvalidDbInfo == "invalid"
InvalidTle == "garbage"

\* a rise/set query answered with a time
SkyAt(alt, t) ==
    [alt |-> alt, previous_rising |-> t - 1, next_rising |-> t + 1,
     next_setting |-> t + 2]

\* the default sky: the 11 bodies 16 degrees apart, -80 .. 80, all rising and setting
DefaultSky(t) ==
    [n \in {BodyNames[k] : k \in 1..Len(BodyNames)} \cup CometNames |->
        IF n = "C/Up" THEN SkyAt(40, t)
        ELSE IF n = "C/Down" THEN SkyAt(-40, t)
        ELSE IF n = "C/Never"
             THEN [alt |-> -40, previous_rising |-> Circumpolar,
                   next_rising |-> Circumpolar, next_setting |-> Circumpolar]
        ELSE LET k == CHOOSE j \in 1..Len(BodyNames) : BodyNames[j] = n
             IN  SkyAt(16 * k - 96, t)]

OddAlts == {-15, 0, 30}

\* what the sky of one body can be: below, on and above the horizon, with each
\* of the rising and the setting queries answered or refused
OddSkies(t) ==
    {[alt |-> a,
      previous_rising |-> IF r THEN t - 1 ELSE Circumpolar,
      next_rising |-> IF r THEN t + 1 ELSE Circumpolar,
      next_setting |-> IF s THEN t + 2 ELSE Circumpolar] :
        a \in OddAlts, r \in BOOLEAN, s \in BOOLEAN}

\* skies that differ from the default one in at most MaxOdd bodies
Skies(t) ==
    LET names == {BodyNames[k] : k \in 1..Len(BodyNames)}
        odd == {S \in SUBSET names : Cardinality(S) <= MaxOdd}
    IN  UNION {{[n \in DOMAIN DefaultSky(t) |-> IF n \in S THEN f[n] ELSE DefaultSky(t)[n]] :
                    f \in [S -> OddSkies(t)]} : S \in odd}

\* the library's built-in city table (name -> latitude); whether it knows the
\* program's fallback default city is not decided by this repository
BuiltinTables ==
    {[n \in {"Boston", "Both"} |-> "42:21"],
     [n \in {"Boston", "Both", "Los Gatos"} |-> "42:21"]}

\* a latitude or longitude string the library's angle parser accepts
ParsesAsAngle(s) == s # "north"

----------------------------------------------------------------------------
(* The configuration document and the command line *)

CityEntry(name, lat) ==
    [name |-> name, latitude |-> lat, longitude |-> "-121:58", elevation |-> 100]

TheCities ==
    <<CityEntry("Los Gatos", "37:13"), CityEntry("Mytown", "10:00"),
      CityEntry("Both", "10:00"), CityEntry("Badtown", "north"),
      CityEntry("Mytown", "11:00")>>

CometEntries ==
    [display : BOOLEAN, db_info : CometNames \cup {InvalidDbInfo}]

SatelliteEntries ==
    [display : BOOLEAN, name : {"ISS"}, tle_line2 : {"2"},
     tle_line1 : {InvalidTle, "tle:pass", "tle:stale", "tle:nopeak"}]

TheComets == <<[display |-> TRUE, db_info |-> "C/Up"],
               [display |-> FALSE, db_info |-> InvalidDbInfo],
               [display |-> TRUE, db_info |-> "C/Down"]>>

TheSatellites == <<[display |-> TRUE, name |-> "ISS", tle_line1 |-> "tle:pass", tle_line2 |-> "2"],
                   [display |-> FALSE, name |-> "ISS", tle_line1 |-> InvalidTle, tle_line2 |-> "2"],
                   [display |-> TRUE, name |-> "ISS", tle_line1 |-> "tle:stale", tle_line2 |-> "2"]>>

TopLevelKeys == {"cities", "default_city", "comets", "satellites"}

\* the document with the keys `keys` present
Document(keys, dflt, comets, satellites) ==
    [k \in keys |->
        CASE k = "cities" -> TheCities
          [] k = "default_city" -> dflt
          [] k = "comets" -> comets
          [] OTHER -> satellites]

CityArgs == {NoArg, "Boston", "Mytown", "Both", "Nowhereville", "Badtown", "Los Gatos"}

BaseInstant == 100

----------------------------------------------------------------------------
(* Initial states: the inputs of one run, the script at its first statement *)

\* every subset of the top-level keys, every city argument, both city tables
InputsConfig ==
    /\ \E keys \in SUBSET TopLevelKeys,
          dflt \in {"Mytown", "Boston", "Nowhereville"} :
            config_data = Document(keys, dflt, TheComets, TheSatellites)
    /\ argv_city \in CityArgs
    /\ builtin \in BuiltinTables
    /\ instant = BaseInstant
    /\ sky = DefaultSky(BaseInstant)

\* every sky within MaxOdd of the default one
InputsSky ==
    /\ config_data = Document(TopLevelKeys, "Mytown", TheComets, TheSatellites)
    /\ argv_city = NoArg
    /\ builtin \in BuiltinTables
    /\ instant = BaseInstant
    /\ sky \in Skies(BaseInstant)

\* every instant of one synodic month
InputsMoon ==
    /\ config_data = Document(TopLevelKeys, "Mytown", TheComets, TheSatellites)
    /\ argv_city = NoArg
    /\ builtin \in BuiltinTables
    /\ instant \in BaseInstant .. BaseInstant + MoonPeriod - 1
    /\ sky = DefaultSky(instant)

\* every comet list and every satellite list within the bounds
InputsObjects ==
    /\ \/ \E comets \in SeqsUpTo(CometEntries, MaxComets) :
            config_data = Document(TopLevelKeys, "Mytown", comets, TheSatellites)
       \/ \E satellites \in SeqsUpTo(SatelliteEntries, MaxSatellites) :
            config_data = Document(TopLevelKeys, "Mytown", TheComets, satellites)
    /\ argv_city = "Boston"
    /\ builtin \in BuiltinTables
    /\ instant = BaseInstant
    /\ sky = DefaultSky(BaseInstant)

Init ==
    /\ InputsConfig \/ InputsSky \/ InputsMoon \/ InputsObjects
    /\ pc = "load_cities"
    /\ mycity_data = <<>>
    /\ default_city = "Los Gatos"
    /\ args_city = NoArg
    /\ site = [name |-> "", lat |-> "", lon |-> "", elevation |-> 0, date |-> NoTime]
    /\ now = NoTime
    /\ obj = <<>>
    /\ idx = 0
    /\ fault = NoFault
    /\ exit_code = Running
    /\ readdb_calls = <<>>
    /\ out = <<>>

----------------------------------------------------------------------------
(* Printed lines *)

Line(kind, name) == [kind |-> kind, name |-> name]

Section(name) == Line("section", name)
TableHeader(name) == Line("table_header", name)
Rule == Line("rule", "")

\* a cell holding a formatted value, and a cell of placeholder dashes
Cell(v) == [dash |-> FALSE, v |-> v]
Dashes == [dash |-> TRUE, v |-> 0]

\* a rise/set cell: a formatted time, or a literal
TimeLabel(t) == [text |-> "mm/dd hh:mm", t |-> t]
Literal(text) == [text |-> text, t |-> NoTime]

----------------------------------------------------------------------------
(* Configuration loading and the observer *)

\* the dict built by the update() calls of line 133: a later entry of the same
\* name replaces an earlier one (every entry holds its four keys)
CityTable(cities) ==
    [n \in {cities[k].name : k \in 1..Len(cities)} |->
        LET k == CHOOSE j \in 1..Len(cities) :
                    /\ cities[j].name = n
                    /\ \A l \in j + 1..Len(cities) : cities[l].name # n
        IN  <<cities[k].latitude, cities[k].longitude, cities[k].elevation>>]

\* config_data[key] of lines 130, 141, 309 and 324 raises KeyError exactly
\* when the key is absent
HasKey(doc, key) == key \in DOMAIN doc

\* the handler left out: the KeyError leaves the statement
MissingKeyUncaught(key) == "KeyError"

\* lines 135-137, 143-145, 318-320 and 339-341: `except KeyError: pass`; the
\* exception that leaves the handler
MissingKey(key) == NoFault

\* an unhandled exception ends the run
Abort(exception) ==
    /\ pc' = "aborted"
    /\ fault' = exception
    /\ exit_code' = "1"

\* lines 128-137
LoadCities ==
    /\ pc = "load_cities"
    /\ IF HasKey(config_data, "cities")
       THEN /\ mycity_data' = CityTable(config_data["cities"])
            /\ pc' = "load_default"
            /\ UNCHANGED <<fault, exit_code>>
       ELSE IF MissingKey("cities") = NoFault
       THEN /\ pc' = "load_default"
            /\ UNCHANGED <<mycity_data, fault, exit_code>>
       ELSE /\ Abort(MissingKey("cities"))
            /\ UNCHANGED mycity_data
    /\ UNCHANGED <<readdb_calls, inputs, default_city, args_city, site, now, obj, idx,
                   out>>

\* lines 140-145
LoadDefaultCity ==
    /\ pc = "load_default"
    /\ IF HasKey(config_data, "default_city")
       THEN /\ default_city' = config_data["default_city"]
            /\ pc' = "parse_args"
            /\ UNCHANGED <<fault, exit_code>>
       ELSE IF MissingKey("default_city") = NoFault
       THEN /\ pc' = "parse_args"
            /\ UNCHANGED <<default_city, fault, exit_code>>
       ELSE /\ Abort(MissingKey("default_city"))
            /\ UNCHANGED default_city
    /\ UNCHANGED <<readdb_calls, inputs, mycity_data, args_city, site, now, obj, idx,
                   out>>

\* lines 150-160
ParseArgs ==
    /\ pc = "parse_args"
    /\ args_city' = IF argv_city = NoArg THEN default_city ELSE argv_city
    /\ pc' = "lookup_city"
    /\ UNCHANGED <<readdb_calls, inputs, mycity_data, default_city, site, now, obj, idx, fault,
                   exit_code, out>>

\* ephem.city(name): the observer of a built-in city, or KeyError
EphemCity(name) ==
    IF name \in DOMAIN builtin
    THEN [raised |-> NoFault,
          o |-> [name |-> name, lat |-> builtin[name], lon |-> "0:00",
                 elevation |-> 0, date |-> NoTime]]
    ELSE [raised |-> "KeyError", o |-> site]

\* lines 36-45: KeyError for an unknown name; an angle the library cannot
\* parse raises ValueError from the assignment of line 43
additional_city(name) ==
    IF name \notin DOMAIN mycity_data
    THEN [raised |-> "KeyError", o |-> site]
    ELSE LET data == mycity_data[name]
         IN  IF ParsesAsAngle(data[1]) /\ ParsesAsAngle(data[2])
             THEN [raised |-> NoFault,
                   o |-> [name |-> name, lat |-> data[1], lon |-> data[2],
                          elevation |-> data[3], date |-> NoTime]]
             ELSE [raised |-> "ValueError", o |-> site]

\* the two tables consulted in the other order
ResolveLocalFirst(name) ==
    IF additional_city(name).raised = NoFault
    THEN additional_city(name)
    ELSE EphemCity(name)

\* lines 164-169: the built-in table first, then the extra table
Resolve(name) ==
    IF EphemCity(name).raised = "KeyError"
    THEN additional_city(name)
    ELSE EphemCity(name)

NotFoundLine(name) == Line("not_found", name)

\* lines 164-171
LookupCity ==
    /\ pc = "lookup_city"
    /\ LET r == Resolve(args_city)
       IN  IF r.raised = NoFault
           THEN /\ site' = r.o
                /\ pc' = "banner"
                /\ UNCHANGED <<out, exit_code>>
           ELSE /\ out' = Append(out, NotFoundLine(args_city))
                /\ exit_code' = "0"
                /\ pc' = "exited"
                /\ UNCHANGED site
    /\ UNCHANGED <<readdb_calls, inputs, mycity_data, default_city, args_city, now, obj, idx, fault>>

\* lines 181-190
Banner ==
    /\ pc = "banner"
    /\ now' = instant
    /\ site' = [site EXCEPT !.date = instant]
    /\ out' = Append(out, Line("banner", site.name))
    /\ pc' = "sun_moon"
    /\ UNCHANGED <<readdb_calls, inputs, mycity_data, default_city, args_city, obj, idx, fault,
                   exit_code>>

----------------------------------------------------------------------------
(* Bodies and the visibility reporter *)

\* the altitude of a body at instant t: the sky's at the report instant, the
\* horizon at the instant of a rising or setting
AltAt(name, t) ==
    IF t # instant /\ t \in {sky[name].previous_rising, sky[name].next_rising,
                             sky[name].next_setting}
    THEN 0
    ELSE sky[name].alt

\* a body object made without an observer: its position fields are unset
Body(name) == [name |-> name, alt |-> 0, asof |-> NoTime]

\* body.compute(observer): the position fields become those of observer.date
Compute(o, observer) ==
    [o EXCEPT !.alt = AltAt(o.name, observer.date), !.asof = observer.date]

\* the side effect of observer.previous_rising / next_rising / next_setting on
\* the body: its fields are left at the instant the solver stopped at, the
\* event found or (query refused) the end of its search window
AfterQuery(o, answer, window_end) ==
    LET t == IF answer = Circumpolar THEN window_end ELSE answer
    IN  [o EXCEPT !.alt = AltAt(o.name, t), !.asof = t]

Put(objects, id, o) ==
    [k \in DOMAIN objects \cup {id} |-> IF k = id THEN o ELSE objects[k]]

\* line 88 with >= for >
IsAboveHorizonOrOn(alt) == alt >= 0

\* line 88
IsAboveHorizon(alt) == alt > 0

\* lines 90-94 with the literal of lines 97-101
RiseLabelSwapped(answer) ==
    IF answer = Circumpolar THEN Literal("doesn't set") ELSE TimeLabel(answer)

\* lines 90-94
RiseLabel(answer) ==
    IF answer = Circumpolar THEN Literal("already up ") ELSE TimeLabel(answer)

\* lines 97-101
SetLabel(answer) ==
    IF answer = Circumpolar THEN Literal("doesn't set") ELSE TimeLabel(answer)

\* lines 103 and 111 left out
NoRecompute(o, observer) == o

\* lines 103 and 111
Recompute(o, observer) == Compute(o, observer)

\* lines 108-109 with a handler that swallows the exception
RaisesNothing(answer) == NoFault

\* lines 108-109: no handler around the two queries
Raises(answer) == IF answer = Circumpolar THEN "CircumpolarError" ELSE NoFault

\* lines 104-105: the fields read from the body are its altitude and, standing
\* for azimuth, magnitude, RA and DEC, the instant its fields are those of
YesRow(o, r_time, s_time) ==
    [kind |-> "row", name |-> o.name, vis |-> "Yes", alt |-> Cell(o.alt),
     pos |-> Cell(o.asof), rise |-> r_time, set |-> s_time]

\* line 114
NoRow(o, r_time, s_time) ==
    [kind |-> "row", name |-> o.name, vis |-> "No", alt |-> Dashes,
     pos |-> Dashes, rise |-> r_time, set |-> s_time]

\* lines 85-114: the body object afterwards, the lines printed, the exception
\* leaving the function
print_visinfo(body, location) ==
    LET b0 == Compute(body, location)
        answers == sky[body.name]
    IN  IF IsAboveHorizon(b0.alt)
        THEN LET b1 == AfterQuery(b0, answers.previous_rising, location.date - 3)
                 r_time == RiseLabel(answers.previous_rising)
                 b2 == AfterQuery(b1, answers.next_setting, location.date + 3)
                 s_time == SetLabel(answers.next_setting)
                 b3 == Recompute(b2, location)
             IN  [o |-> b3, lines |-> <<YesRow(b3, r_time, s_time)>>, raised |-> NoFault]
        ELSE LET b1 == AfterQuery(b0, answers.next_rising, location.date + 3)
                 b2 == AfterQuery(b1, answers.next_setting, location.date + 3)
                 b3 == Recompute(b2, location)
             IN  IF Raises(answers.next_rising) # NoFault
                 THEN [o |-> b1, lines |-> <<>>, raised |-> Raises(answers.next_rising)]
                 ELSE IF Raises(answers.next_setting) # NoFault
                 THEN [o |-> b2, lines |-> <<>>, raised |-> Raises(answers.next_setting)]
                 ELSE [o |-> b3,
                       lines |-> <<NoRow(b3, TimeLabel(answers.next_rising),
                                         TimeLabel(answers.next_setting))>>,
                       raised |-> NoFault]

\* a top-level call print_visinfo(<id>, site): on an exception the run ends
VisinfoCall(id, next_pc, footer) ==
    LET r == print_visinfo(obj[id], site)
    IN  /\ obj' = Put(obj, id, r.o)
        /\ IF r.raised = NoFault
           THEN /\ out' = out \o r.lines \o footer
                /\ pc' = next_pc
                /\ UNCHANGED <<fault, exit_code>>
           ELSE /\ out' = out \o r.lines
                /\ Abort(r.raised)

\* lines 193-203
CreateSunMoon ==
    /\ pc = "sun_moon"
    /\ obj' = [k \in {"s", "m", "s_loc", "m_loc"} |->
                 Compute(Body(IF k \in {"s", "s_loc"} THEN "Sun" ELSE "Moon"), site)]
    /\ out' = out \o <<Section("Sun and Moon"), TableHeader("BODY"), Rule>>
    /\ pc' = "sun_row"
    /\ UNCHANGED <<readdb_calls, inputs, mycity_data, default_city, args_city, site, now, idx,
                   fault, exit_code>>

\* line 204
SunRow ==
    /\ pc = "sun_row"
    /\ VisinfoCall("s_loc", "moon_row", <<>>)
    /\ UNCHANGED <<readdb_calls, inputs, mycity_data, default_city, args_city, site, now, idx>>

\* lines 205-206
MoonRow ==
    /\ pc = "moon_row"
    /\ VisinfoCall("m_loc", "lunar", <<Rule>>)
    /\ UNCHANGED <<readdb_calls, inputs, mycity_data, default_city, args_city, site, now, idx>>

----------------------------------------------------------------------------
(* Lunar phase *)

\* ephem.previous_new_moon / next_new_moon: new moons fall every MoonPeriod
PreviousNewMoon(t) == t - (t % MoonPeriod)
NextNewMoon(t) == PreviousNewMoon(t) + MoonPeriod

\* line 216, as an exact fraction
Lunation(t) ==
    [num |-> t - PreviousNewMoon(t), den |-> NextNewMoon(t) - PreviousNewMoon(t)]

\* lines 220-227 with <= for <
PhaseNameInclusive(l) ==
    IF 4 * l.num <= l.den THEN "New Moon"
    ELSE IF 2 * l.num <= l.den THEN "First Quarter"
    ELSE IF 4 * l.num <= 3 * l.den THEN "Full Moon"
    ELSE "Last Quarter"

\* lines 220-227: lunation < 0.25, < 0.5, < 0.75
PhaseName(l) ==
    IF 4 * l.num < l.den THEN "New Moon"
    ELSE IF 2 * l.num < l.den THEN "First Quarter"
    ELSE IF 4 * l.num < 3 * l.den THEN "Full Moon"
    ELSE "Last Quarter"

\* lines 208-236
LunarPhase ==
    /\ pc = "lunar"
    /\ LET lunation == Lunation(now)
       IN  out' = out \o
             <<Section("Lunar Phase information"),
               \* m.moon_phase is that of the instant m's fields are those of
               [kind |-> "illum", name |-> "Moon", pos |-> Cell(obj["m"].asof),
                num |-> lunation.num, den |-> lunation.den],
               Line("was_just", PhaseName(lunation)),
               Line("next_phase", "New Moon"), Line("next_phase", "First Quarter"),
               Line("next_phase", "Full Moon"), Line("next_phase", "Last Quarter")>>
    /\ pc' = "planets"
    /\ UNCHANGED <<readdb_calls, inputs, mycity_data, default_city, args_city, site, now, obj, idx,
                   fault, exit_code>>

----------------------------------------------------------------------------
(* Planets *)

PlanetIds == <<"mercury", "venus", "mars", "jupiter", "saturn", "uranus",
               "neptune", "pluto">>

\* lines 238-249: the planets are made without an observer
CreatePlanets ==
    /\ pc = "planets"
    /\ obj' = [k \in DOMAIN obj \cup {PlanetIds[p] : p \in 1..Len(PlanetIds)} |->
                 IF k \in DOMAIN obj THEN obj[k]
                 ELSE Body(BodyNames[2 + CHOOSE p \in 1..Len(PlanetIds) : PlanetIds[p] = k])]
    /\ out' = out \o <<Section("Planets"), TableHeader("BODY"), Rule>>
    /\ idx' = 1
    /\ pc' = "planet_row"
    /\ UNCHANGED <<readdb_calls, inputs, mycity_data, default_city, args_city, site, now, fault,
                   exit_code>>

\* lines 250-258, one call each
PlanetRow ==
    /\ pc = "planet_row"
    /\ IF idx = Len(PlanetIds)
       THEN VisinfoCall(PlanetIds[idx], "conjunctions", <<Rule>>)
       ELSE VisinfoCall(PlanetIds[idx], "planet_row", <<>>)
    /\ idx' = idx + 1
    /\ UNCHANGED <<readdb_calls, inputs, mycity_data, default_city, args_city, site, now>>

----------------------------------------------------------------------------
(* Conjunction scan *)

\* line 270
bodies == <<"s", "m", "mercury", "venus", "mars", "jupiter", "saturn", "uranus",
            "neptune", "pluto", "m45">>

\* line 273, in degrees
threshold == 15

\* ephem.separation of two (az, alt) pairs of the same azimuth
Separation(alt1, alt2) == Abs(alt1 - alt2)

\* line 278 with <= for <
IsCloseInclusive(sep) == sep <= threshold

\* line 278
IsClose(sep) == sep < threshold

\* lines 275-282, from pair (i, j) on, `count` pairs printed so far
RECURSIVE Scan(_, _, _, _)
Scan(objects, i, j, count) ==
    IF i > Len(bodies) THEN <<>>
    ELSE IF j > Len(bodies) THEN Scan(objects, i + 1, i + 2, count)
    ELSE LET sep == Separation(objects[bodies[i]].alt, objects[bodies[j]].alt)
         IN  IF IsClose(sep)
             THEN (IF count = 0 THEN <<Section("Close Approaches")>> ELSE <<>>)
                  \o <<[kind |-> "pair", name |-> objects[bodies[i]].name,
                        other |-> objects[bodies[j]].name, sep |-> sep,
                        \* not printed: the instants the two (az, alt) read are those of
                        pos |-> Cell(objects[bodies[i]].asof),
                        other_pos |-> Cell(objects[bodies[j]].asof)]>>
                  \o Scan(objects, i, j + 1, count + 1)
             ELSE Scan(objects, i, j + 1, count)

\* lines 266-282
Conjunctions ==
    /\ pc = "conjunctions"
    /\ obj' = Put(obj, "m45", Compute(Body("M45"), site))
    /\ out' = out \o Scan(obj', 1, 2, 0)
    /\ pc' = "comets_begin"
    /\ UNCHANGED <<readdb_calls, inputs, mycity_data, default_city, args_city, site, now, idx,
                   fault, exit_code>>

----------------------------------------------------------------------------
(* Special objects: comets *)

\* ephem.readdb: a body, or ValueError for a descriptor it cannot parse
ReadDb(db_info) ==
    IF db_info = InvalidDbInfo
    THEN [raised |-> "ValueError", o |-> Body("")]
    ELSE [raised |-> NoFault, o |-> Body(db_info)]

\* lines 305-311, and 318-320 when the key is absent
CometsBegin ==
    /\ pc = "comets_begin"
    /\ IF HasKey(config_data, "comets")
       THEN /\ out' = out \o <<Section("Special Objects"), TableHeader("COMET"), Rule>>
            /\ pc' = "comet_loop"
            /\ UNCHANGED <<fault, exit_code>>
       ELSE /\ out' = Append(out, Section("Special Objects"))
            /\ IF MissingKey("comets") = NoFault
               THEN /\ pc' = "sats_begin"
                    /\ UNCHANGED <<fault, exit_code>>
               ELSE Abort(MissingKey("comets"))
    /\ idx' = 1
    /\ UNCHANGED <<readdb_calls, inputs, mycity_data, default_city, args_city, site,
                   now, obj>>

\* lines 312-316, one entry; the handler of line 318 catches KeyError only
CometStep ==
    /\ pc = "comet_loop"
    /\ idx <= Len(config_data["comets"])
    /\ LET i == config_data["comets"][idx]
           parsed == ReadDb(i.db_info)
           r == print_visinfo(parsed.o, site)
       IN  IF ~i.display
           THEN /\ pc' = "comet_loop"
                /\ UNCHANGED <<readdb_calls, obj, out, fault, exit_code>>
           ELSE /\ readdb_calls' = Append(readdb_calls, i.db_info)
                /\ IF parsed.raised # NoFault
                   THEN /\ Abort(parsed.raised)
                        /\ UNCHANGED <<obj, out>>
                   ELSE /\ obj' = Put(obj, "comet", r.o)
                        /\ out' = out \o r.lines
                        /\ IF r.raised = NoFault
                           THEN /\ pc' = "comet_loop"
                                /\ UNCHANGED <<fault, exit_code>>
                           ELSE Abort(r.raised)
    /\ idx' = idx + 1
    /\ UNCHANGED <<inputs, mycity_data, default_city, args_city, site, now>>

\* line 317
CometsEnd ==
    /\ pc = "comet_loop"
    /\ idx > Len(config_data["comets"])
    /\ out' = Append(out, Rule)
    /\ pc' = "sats_begin"
    /\ UNCHANGED <<readdb_calls, inputs, mycity_data, default_city, args_city, site,
                   now, obj, idx, fault, exit_code>>

----------------------------------------------------------------------------
(* Special objects: satellites *)

\* ephem.readtle: ValueError for lines that are no two-line element set
ReadTle(name, line1, line2) ==
    IF line1 = InvalidTle
    THEN [raised |-> "ValueError", name |-> name, elements |-> line1]
    ELSE [raised |-> NoFault, name |-> name, elements |-> line1]

\* site.next_pass: six values, any of them None when that event was not
\* found, or ValueError when the satellite never crosses the horizon
NextPass(satellite) ==
    IF satellite.elements = "tle:stale"
    THEN [raised |-> "ValueError", complete |-> FALSE]
    ELSE [raised |-> NoFault, complete |-> satellite.elements = "tle:pass"]

BelowLine(name) == Line("sat_below", name)

\* lines 328-338: the title, header and rule are printed before the values
\* are formatted; fmt_shortdate / fmt_angle of None raises
PassReport(satellite) ==
    LET info == NextPass(satellite)
    IN  IF info.raised # NoFault
        THEN <<BelowLine(satellite.name)>>
        ELSE <<Line("sat_title", satellite.name), Line("sat_header", ""),
               Line("sat_rule", "")>>
             \o (IF info.complete
                 THEN <<Line("sat_row", satellite.name), Line("sat_rule", "")>>
                 ELSE <<BelowLine(satellite.name)>>)

\* lines 323-324, and 339-341 when the key is absent
SatellitesBegin ==
    /\ pc = "sats_begin"
    /\ IF HasKey(config_data, "satellites")
       THEN /\ pc' = "sat_loop"
            /\ UNCHANGED <<fault, exit_code>>
       ELSE IF MissingKey("satellites") = NoFault
       THEN /\ pc' = "done"
            /\ exit_code' = "0"
            /\ UNCHANGED fault
       ELSE Abort(MissingKey("satellites"))
    /\ idx' = 1
    /\ UNCHANGED <<readdb_calls, inputs, mycity_data, default_city, args_city, site,
                   now, obj, out>>

\* lines 325-338, one entry; readtle is called outside the inner handler
SatelliteStep ==
    /\ pc = "sat_loop"
    /\ idx <= Len(config_data["satellites"])
    /\ LET i == config_data["satellites"][idx]
           satellite == ReadTle(i.name, i.tle_line1, i.tle_line2)
       IN  IF ~i.display
           THEN /\ pc' = "sat_loop"
                /\ UNCHANGED <<out, fault, exit_code>>
           ELSE IF satellite.raised # NoFault
           THEN /\ Abort(satellite.raised)
                /\ UNCHANGED out
           ELSE /\ out' = out \o PassReport(satellite)
                /\ pc' = "sat_loop"
                /\ UNCHANGED <<fault, exit_code>>
    /\ idx' = idx + 1
    /\ UNCHANGED <<readdb_calls, inputs, mycity_data, default_city, args_city, site,
                   now, obj>>

\* the end of the script
SatellitesEnd ==
    /\ pc = "sat_loop"
    /\ idx > Len(config_data["satellites"])
    /\ pc' = "done"
    /\ exit_code' = "0"
    /\ UNCHANGED <<readdb_calls, inputs, mycity_data, default_city, args_city, site,
                   now, obj, idx, fault, out>>

----------------------------------------------------------------------------

Next ==
    \/ LoadCities
    \/ LoadDefaultCity
    \/ ParseArgs
    \/ LookupCity
    \/ Banner
    \/ CreateSunMoon
    \/ SunRow
    \/ MoonRow
    \/ LunarPhase
    \/ CreatePlanets
    \/ PlanetRow
    \/ Conjunctions
    \/ CometsBegin
    \/ CometStep
    \/ CometsEnd
    \/ SatellitesBegin
    \/ SatelliteStep
    \/ SatellitesEnd

Spec == Init /\ [][Next]_vars

----------------------------------------------------------------------------
(* Vocabulary of the properties *)

Rows(s) == SelectLines(s, {"row"})

\* the lines printed by the step in progress
Added == SubSeq(out', Len(out) + 1, Len(out'))

\* the script has passed the statements at which pc has a value of `before`
Past(before) == pc \notin before

BeforeSite == {"load_cities", "load_default", "parse_args", "lookup_city"}

\* the lunar phase report has been printed
LunarDone == \E k \in 1..Len(out) : out[k] = Section("Lunar Phase information")

\* the conjunction scan has run
ScanDone == "m45" \in DOMAIN obj

\* the name of the body the next step calls print_visinfo on, "" if it calls none
CalledBody ==
    CASE pc = "sun_row" -> "Sun"
      [] pc = "moon_row" -> "Moon"
      [] pc = "planet_row" -> BodyNames[2 + idx]
      [] pc = "comet_loop" /\ idx <= Len(config_data["comets"]) ->
            LET i == config_data["comets"][idx]
            IN  IF i.display /\ i.db_info # InvalidDbInfo THEN i.db_info ELSE ""
      [] OTHER -> ""

----------------------------------------------------------------------------
(* C1 *)

\* C1: every row print_visinfo emits is decided by the altitude of its body at
\* the observer's time alone: the row is marked Yes exactly when that altitude
\* is strictly greater than 0 (altitude 0 gives No); a Yes row shows computed
\* values, a No row shows dashes for altitude and for azimuth, magnitude, RA
\* and DEC.
C1_RowDecidedByAltitude ==
    \A k \in 1..Len(out) :
        out[k].kind = "row" =>
            /\ out[k].vis \in {"Yes", "No"}
            /\ out[k].vis = "Yes" <=> AltAt(out[k].name, site.date) > 0
            /\ out[k].vis = "Yes" => ~out[k].alt.dash /\ ~out[k].pos.dash
            /\ out[k].vis = "No" => out[k].alt = Dashes /\ out[k].pos = Dashes

\* a run that printed a Yes row, and a No row for a body exactly on the horizon
C1_Witness ==
    /\ \E k \in 1..Len(out) : out[k].kind = "row" /\ out[k].vis = "Yes"
    /\ \E k \in 1..Len(out) :
            /\ out[k].kind = "row" /\ out[k].vis = "No"
            /\ sky[out[k].name].alt = 0

----------------------------------------------------------------------------
(* C2 *)

\* C2: a call of print_visinfo on a body above the horizon emits exactly one
\* row, marked Yes, and raises nothing, whatever the two queries answer; its
\* rise label is the literal "already up " exactly when previous_rising
\* signals a circumpolar condition and the formatted time it returned
\* otherwise; its set label is the literal "doesn't set" exactly when
\* next_setting signals one and the formatted time otherwise.
C2_YesRowLabels ==
    [][(CalledBody # "" /\ sky[CalledBody].alt > 0) =>
          LET answers == sky[CalledBody]
              rows == Rows(Added)
          IN  /\ fault' = NoFault
              /\ pc' # "aborted"
              /\ Len(rows) = 1
              /\ rows[1].name = CalledBody
              /\ rows[1].vis = "Yes"
              /\ rows[1].rise = (IF answers.previous_rising = Circumpolar
                                 THEN Literal("already up ")
                                 ELSE TimeLabel(answers.previous_rising))
              /\ rows[1].set = (IF answers.next_setting = Circumpolar
                                THEN Literal("doesn't set")
                                ELSE TimeLabel(answers.next_setting))]_vars

\* a Yes row whose rising query was refused and whose setting query was
\* answered
C2_Witness ==
    \E k \in 1..Len(out) :
        /\ out[k].kind = "row" /\ out[k].vis = "Yes"
        /\ sky[out[k].name].previous_rising = Circumpolar
        /\ sky[out[k].name].next_setting # Circumpolar
        /\ out[k].rise = Literal("already up ")
        /\ out[k].set.t = sky[out[k].name].next_setting

----------------------------------------------------------------------------
(* C3 *)

\* the position of a body in the scanned list, by the name the scan prints
Index(name) == CHOOSE k \in 1..Len(BodyNames) : BodyNames[k] = name

\* the pairs (i, j), i < j, of the scanned list less than 15 degrees apart
ClosePairs ==
    {p \in (1..Len(bodies)) \X (1..Len(bodies)) :
        /\ p[1] < p[2]
        /\ Abs(obj[bodies[p[1]]].alt - obj[bodies[p[2]]].alt) < 15}

ScanOutput == SelectLines(out, {"pair"})

ScanHeaders == {k \in 1..Len(out) : out[k] = Section("Close Approaches")}

\* C3: once the scan of the 11 bodies has run, the report holds no header and
\* no pair line when no pair is less than 15 degrees apart; otherwise it holds
\* the header once, directly before the first pair line, and one line for
\* each pair (i, j), i < j, strictly less than 15 degrees apart and for no
\* other pair (none for a pair exactly 15 degrees apart), in increasing
\* lexicographic order of (i, j).
C3_ScanOutput ==
    ScanDone =>
        LET lines == ScanOutput
            at(k) == <<Index(lines[k].name), Index(lines[k].other)>>
        IN  /\ Len(bodies) = 11
            /\ [k \in 1..Len(bodies) |-> obj[bodies[k]].name] = BodyNames
            /\ Len(lines) = Cardinality(ClosePairs)
            /\ \A k \in 1..Len(lines) :
                    /\ at(k) \in ClosePairs
                    /\ lines[k].sep = Abs(obj[bodies[at(k)[1]]].alt - obj[bodies[at(k)[2]]].alt)
            /\ \A k \in 1..Len(lines) - 1 :
                    \/ at(k)[1] < at(k + 1)[1]
                    \/ at(k)[1] = at(k + 1)[1] /\ at(k)[2] < at(k + 1)[2]
            /\ Cardinality(ScanHeaders) = (IF ClosePairs = {} THEN 0 ELSE 1)
            /\ \A h \in ScanHeaders :
                    /\ h < Len(out)
                    /\ out[h + 1].kind = "pair"
                    /\ \A k \in 1..h : out[k].kind # "pair"

\* a finished scan that reported two pairs, the wider one first
C3_Witness ==
    /\ ScanDone /\ pc = "done"
    /\ Len(ScanOutput) >= 2
    /\ ScanOutput[1].sep > ScanOutput[2].sep
    /\ Cardinality(ScanHeaders) = 1

----------------------------------------------------------------------------
(* C4 *)

PhaseLines == SelectLines(out, {"was_just"})

QuartileNames == <<"New Moon", "First Quarter", "Full Moon", "Last Quarter">>

\* C4: the previous new moon is not after now and the next one is after now;
\* the lunation (now - previous_new) / (next_new - previous_new) is in [0, 1);
\* once the lunar phase report is printed it holds exactly one "Was just" line,
\* whose label is that of the quartile of the lunation, the boundaries 0.25,
\* 0.5 and 0.75 falling in the later quartile.
C4_PhaseByQuartile ==
    LunarDone =>
        LET previous_new == PreviousNewMoon(now)
            next_new == NextNewMoon(now)
            num == now - previous_new
            den == next_new - previous_new
            quartile == (4 * num) \div den
        IN  /\ previous_new <= now /\ now < next_new
            /\ 0 <= num /\ num < den
            /\ quartile \in 0..3
            /\ Len(PhaseLines) = 1
            /\ PhaseLines[1].name = QuartileNames[quartile + 1]
            /\ \E k \in 1..Len(out) :
                    out[k].kind = "illum" /\ out[k].num = num /\ out[k].den = den

\* a report printed at a lunation of exactly one half
C4_Witness ==
    /\ LunarDone /\ pc = "done"
    /\ 2 * Lunation(now).num = Lunation(now).den
    /\ PhaseLines = <<Line("was_just", "Full Moon")>>

----------------------------------------------------------------------------
(* C5 *)

\* the entries of the configured extra cities named n
ExtraEntries(n) ==
    IF "cities" \in DOMAIN config_data
    THEN {k \in 1..Len(config_data["cities"]) : config_data["cities"][k].name = n}
    ELSE {}

\* the observer made from entry k of the configured extra cities
FromExtra(k) ==
    LET e == config_data["cities"][k]
    IN  /\ site.name = e.name
        /\ site.lat = e.latitude
        /\ site.lon = e.longitude
        /\ site.elevation = e.elevation

FromBuiltin(n) == site.name = n /\ site.lat = builtin[n]

NotFoundOnly(n) ==
    /\ pc = "exited"
    /\ exit_code = "0"
    /\ fault = NoFault
    /\ out = <<NotFoundLine(n)>>

\* C5 as claimed: a name of the built-in table resolves from it; any other
\* name of the extra table resolves from its entry there; a name of neither
\* prints the not-found line alone and exits with 0.
C5_AsClaimed ==
    Past(BeforeSite) =>
        IF args_city \in DOMAIN builtin
        THEN pc # "exited" /\ FromBuiltin(args_city)
        ELSE IF ExtraEntries(args_city) # {}
        THEN pc # "exited" /\ \E k \in ExtraEntries(args_city) : FromExtra(k)
        ELSE NotFoundOnly(args_city)

\* the entry of the extra table for n: the last configured under that name
ExtraEntry(n) == CHOOSE k \in ExtraEntries(n) : \A l \in ExtraEntries(n) : l <= k

Accepted(k) ==
    /\ ParsesAsAngle(config_data["cities"][k].latitude)
    /\ ParsesAsAngle(config_data["cities"][k].longitude)

\* C5 (amended): a name of the built-in table resolves from it, also when the
\* extra table holds it too; any other name of the extra table whose entry
\* the library accepts as an observer resolves from that entry; a name of
\* neither table, and a name whose extra-table entry the library rejects,
\* prints the not-found line alone (no banner, no table) and exits with 0.
C5_Resolution ==
    Past(BeforeSite) =>
        IF args_city \in DOMAIN builtin
        THEN pc # "exited" /\ FromBuiltin(args_city)
        ELSE IF ExtraEntries(args_city) # {} /\ Accepted(ExtraEntry(args_city))
        THEN pc # "exited" /\ FromExtra(ExtraEntry(args_city))
        ELSE NotFoundOnly(args_city)

\* the not-found exit for a city that is in the extra table
C5_Witness ==
    /\ pc = "exited"
    /\ args_city \notin DOMAIN builtin
    /\ ExtraEntries(args_city) # {}
    /\ out = <<NotFoundLine(args_city)>>

----------------------------------------------------------------------------
(* C6 *)

Present(key) == key \in DOMAIN config_data

SectionsPrinted ==
    LET lines == SelectLines(out, {"section"})
    IN  [k \in 1..Len(lines) |-> lines[k].name]

RECURSIVE Without(_, _)
Without(s, x) ==
    IF s = <<>> THEN <<>>
    ELSE IF s[1] = x THEN Without(Tail(s), x)
    ELSE <<s[1]>> \o Without(Tail(s), x)

ReportSections ==
    <<"Sun and Moon", "Lunar Phase information", "Planets", "Special Objects">>

IsPrefix(s, t) == Len(s) <= Len(t) /\ s = SubSeq(t, 1, Len(s))

RECURSIVE Displayed(_)
Displayed(entries) ==
    IF entries = <<>> THEN <<>>
    ELSE IF entries[1].display THEN <<entries[1]>> \o Displayed(Tail(entries))
    ELSE Displayed(Tail(entries))

\* the lines printed after the "Special Objects" header
SpecialLines ==
    LET h == CHOOSE k \in 1..Len(out) : out[k] = Section("Special Objects")
    IN  SubSeq(out, h + 1, Len(out))

\* C6: whatever subset of the keys cities, default_city, comets, satellites
\* the document holds, no missing key ends the run: the only exit is the
\* not-found exit of the city lookup and the only faults are those of the
\* library; the sections are printed in their order and a run that reaches
\* the end has printed them all.  An absent key skips its feature alone (no
\* extra city; the default city stays "Los Gatos"; no comet header, row or
\* footer; no satellite line) and the features of the present keys are those
\* of the document: its extra cities, its default city, the comet table with
\* one row for each displayed comet, one report for each displayed satellite.
C6_AbsentKeysSkipped ==
    /\ fault \in {NoFault, "CircumpolarError", "ValueError"}
    /\ pc = "aborted" <=> fault # NoFault
    /\ pc = "exited" => out = <<NotFoundLine(args_city)>>
    /\ IsPrefix(Without(SectionsPrinted, "Close Approaches"), ReportSections)
    /\ pc # "load_cities" =>
            DOMAIN mycity_data = {n \in CityArgs : ExtraEntries(n) # {}}
    /\ pc \notin {"load_cities", "load_default"} =>
            default_city = (IF Present("default_city")
                            THEN config_data["default_city"] ELSE "Los Gatos")
    /\ pc = "done" =>
        /\ Without(SectionsPrinted, "Close Approaches") = ReportSections
        /\ LET table == SelectLines(SpecialLines, {"table_header", "rule", "row"})
               passes == SelectLines(SpecialLines, {"sat_row", "sat_below"})
           IN  /\ ~Present("comets") => table = <<>>
               /\ Present("comets") =>
                    /\ Len(table) = 3 + Len(Displayed(config_data["comets"]))
                    /\ table[1] = TableHeader("COMET")
                    /\ table[2] = Rule
                    /\ table[Len(table)] = Rule
                    /\ \A k \in 1..Len(Displayed(config_data["comets"])) :
                          /\ table[2 + k].kind = "row"
                          /\ table[2 + k].name = Displayed(config_data["comets"])[k].db_info
               /\ ~Present("satellites") => SelectLines(SpecialLines, {"row", "table_header", "rule"}) = SpecialLines
               /\ Present("satellites") =>
                    Len(passes) = Len(Displayed(config_data["satellites"]))

\* a complete run on a document with none of the four keys
C6_Witness ==
    /\ pc = "done"
    /\ DOMAIN config_data = {}
    /\ default_city = "Los Gatos"
    /\ SpecialLines = <<>>

----------------------------------------------------------------------------
(* C7 *)

PassTable(name) ==
    <<Line("sat_title", name), Line("sat_header", ""), Line("sat_rule", ""),
      Line("sat_row", name), Line("sat_rule", "")>>

\* C7: handling a displayed satellite prints either a complete next-pass
\* table (title, column header, rule, one row, rule) or the single line
\* "<name> always below your horizon", whatever fails in constructing it,
\* predicting its pass or rendering the values; no fault leaves the step and
\* the loop goes on to the next configured satellite.
C7_PassTableOrFallback ==
    [][(pc = "sat_loop" /\ idx <= Len(config_data["satellites"])
            /\ config_data["satellites"][idx].display) =>
          LET name == config_data["satellites"][idx].name
          IN  /\ fault' = NoFault
              /\ pc' = "sat_loop"
              /\ idx' = idx + 1
              /\ Added \in {PassTable(name), <<BelowLine(name)>>}]_vars

----------------------------------------------------------------------------
(* C8 *)

\* C8: a step of the comet loop on an entry whose display flag is unset
\* parses nothing, evaluates no body, prints nothing and raises nothing,
\* whatever its db_info; a step on an entry whose display flag is set prints
\* exactly one visibility row and the loop goes on, so that the rows are
\* those of the displayed comets in configuration order.
C8_OneRowPerDisplayedComet ==
    [][(pc = "comet_loop" /\ idx <= Len(config_data["comets"])) =>
          IF config_data["comets"][idx].display
          THEN /\ fault' = NoFault
               /\ pc' = "comet_loop"
               /\ Len(Added) = 1
               /\ Added[1].kind = "row"
               /\ Added[1].name = config_data["comets"][idx].db_info
          ELSE /\ fault' = NoFault
               /\ pc' = "comet_loop"
               /\ Added = <<>>
               /\ readdb_calls' = readdb_calls
               /\ obj' = obj]_vars

----------------------------------------------------------------------------
(* C9 *)

\* C9: a call of print_visinfo on a body not above the horizon whose
\* next-rising or next-setting query signals a circumpolar condition prints
\* no row and ends the run with that exception, from the Sun and Moon calls,
\* the planet calls and the comet loop alike; the ended run takes no further
\* step, so none of the later rows and sections is printed.
C9_UnhandledBelowHorizon ==
    [][/\ pc # "aborted"
       /\ (/\ CalledBody # ""
           /\ sky[CalledBody].alt <= 0
           /\ Circumpolar \in {sky[CalledBody].next_rising, sky[CalledBody].next_setting})
          => /\ out' = out
             /\ pc' = "aborted"
             /\ fault' = "CircumpolarError"
             /\ exit_code' = "1"]_vars

\* a run ended in the planet table by a planet that never sets while below
\* the horizon: no later section was printed
C9_Witness ==
    /\ pc = "aborted"
    /\ fault = "CircumpolarError"
    /\ Last(SectionsPrinted) = "Planets"
    /\ \E k \in 1..Len(PlanetIds) :
            /\ idx = k + 1
            /\ sky[BodyNames[2 + k]].alt <= 0
            /\ sky[BodyNames[2 + k]].next_rising # Circumpolar
            /\ sky[BodyNames[2 + k]].next_setting = Circumpolar
            /\ \A l \in 1..Len(out) : out[l].kind = "row" => out[l].name # BodyNames[2 + k]

----------------------------------------------------------------------------
(* C10 *)

\* the position cells of the report: of the Yes rows, of the illumination
\* line and of both bodies of each pair line
PositionCells ==
    {out[k].pos : k \in {l \in 1..Len(out) : out[l].kind \in {"row", "illum", "pair"}}}
    \cup {out[k].other_pos : k \in {l \in 1..Len(out) : out[l].kind = "pair"}}

\* C10: every position printed or compared is the one the body has at the
\* report instant: each Yes row shows the altitude and the fields of its
\* body as evaluated at the observer's date, which is the report instant
\* from the banner on; the Moon's illumination and the (az, alt) read by the
\* conjunction scan are those of that instant; the Sun and Moon objects of
\* the scan are never handed to a rise/set query, and every object
\* print_visinfo returns normally from has been re-evaluated at that instant.
C10_FieldsReadFresh ==
    /\ Past(BeforeSite \cup {"banner"}) /\ pc # "exited" =>
            site.date = instant /\ now = instant
    /\ \A c \in PositionCells : ~c.dash => c.v = instant
    /\ \A k \in 1..Len(out) :
            out[k].kind = "row" /\ out[k].vis = "Yes" =>
                out[k].alt = Cell(sky[out[k].name].alt)
    /\ \A id \in DOMAIN obj \cap {"s", "m", "m45"} : obj[id].asof = instant
    /\ pc # "aborted" =>
            \A id \in DOMAIN obj : obj[id].asof \in {instant, NoTime}
    /\ ScanDone =>
            \A k \in 1..Len(bodies) :
                obj[bodies[k]] = [name |-> BodyNames[k], alt |-> sky[BodyNames[k]].alt,
                                  asof |-> instant]

\* a finished run that printed a Yes row, the illumination line and a close
\* approach of a planet
C10_Witness ==
    /\ pc = "done"
    /\ \E k \in 1..Len(out) : out[k].kind = "row" /\ out[k].vis = "Yes"
    /\ \E k \in 1..Len(out) : out[k].kind = "illum"
    /\ \E k \in 1..Len(out) : out[k].kind = "pair" /\ out[k].other \notin {"Sun", "Moon", "M45"}

====
